---- MODULE Spec2Model ----
(***************************************************************************)
(* Model of Components/ThirdParty/release_git_tagger.py: the loader of     *)
(* Setup.ini (load_ini_sections) and the entry block, the command runner   *)
(* (run, run_cmd), the release tagger (tag_release_repos) and the          *)
(* fast-forward synchronizer (fast_forward_from_upstream), together with   *)
(* the part of git's behaviour the script's commands rely on.              *)
(*                                                                         *)
(* Text is modelled as sequences of characters, so that str.strip,         *)
(* str.splitlines and the substring test `a in b` are computed as Python   *)
(* computes them.  A character is a one-character string; a character      *)
(* that cannot be written so is written by its code point ("U+00A0").      *)
(* Commit identifiers are small integers; only their equality is ever used *)
(* by the script.                                                          *)
(***************************************************************************)
EXTENDS Integers, Sequences, FiniteSets, TLC

VARIABLES
    ini,              \* Setup.ini: whether the file is there, and its sections
    repos,            \* the descriptor set: the items of the dict in insertion
                      \* order, each [section, name, git, folder]
    disk,             \* per folder name: the directory root_dir/folder and its git state
    disk0,            \* disk as it was when the run started
    mode,             \* which function the entry block calls: "sync" or "tag"
    dry_run,          \* the dry_run argument
    pc,               \* position of the running function
    i,                \* index of the descriptor the loop is at
    remotes,          \* local of fast_forward_from_upstream (line 129)
    current_branch,   \* local (lines 83, 136)
    upstream_heads,   \* local (line 148)
    merge_base,       \* local (line 155)
    head_commit,      \* local (line 160)
    upstream_commit,  \* local (line 161)
    status,           \* the defaultdict(list) of line 115, in key insertion order
    log,              \* every call of run / run_cmd, in order
    stdout,           \* every print, in order
    prev              \* outcome of the preceding run of a paired run, or NoRun

vars == <<ini, repos, disk, disk0, mode, dry_run, pc, i, remotes, current_branch,
          upstream_heads, merge_base, head_commit, upstream_commit, status,
          log, stdout, prev>>

-----------------------------------------------------------------------------
(* Bounds *)

\* the most sections Setup.ini has; the entry block adds one descriptor more
NumSections == 1

-----------------------------------------------------------------------------
(* Text *)

None == "<None>"

s_upstream == <<"u","p","s","t","r","e","a","m">>
s_upstream2 == s_upstream \o <<"2">>
s_origin == <<"o","r","i","g","i","n">>
s_main == <<"m","a","i","n">>
s_main2 == s_main \o <<"2">>
s_dev == <<"d","e","v">>
s_placeholder ==
    <<"<","d","r","y","-","r","u","n","-","b","r","a","n","c","h",">">>
s_a == <<"a">>
s_Options == <<"O","p","t","i","o","n","s">>
s_pyscripter == <<"p","y","s","c","r","i","p","t","e","r">>

\* no-break space, line separator
NBSP == "U+00A0"
LSEP == "U+2028"

\* the characters str.strip() removes: those str.isspace() holds of
Whitespace ==
    {"\t", "\n", "U+000B", "\f", "\r", "U+001C", "U+001D", "U+001E", "U+001F",
     " ", "U+0085", NBSP, "U+1680", "U+2000", "U+2001", "U+2002", "U+2003",
     "U+2004", "U+2005", "U+2006", "U+2007", "U+2008", "U+2009", "U+200A",
     LSEP, "U+2029", "U+202F", "U+205F", "U+3000"}

\* the characters str.splitlines() breaks a line at ("\r\n" is one break)
LineBreaks ==
    {"\n", "\r", "U+000B", "\f", "U+001C", "U+001D", "U+001E", "U+0085",
     LSEP, "U+2029"}

RECURSIVE LStrip(_)
LStrip(t) == IF t # <<>> /\ Head(t) \in Whitespace THEN LStrip(Tail(t)) ELSE t

RECURSIVE RStrip(_)
RStrip(t) ==
    IF t # <<>> /\ t[Len(t)] \in Whitespace
    THEN RStrip(SubSeq(t, 1, Len(t) - 1))
    ELSE t

\* str.strip()
Strip(t) == RStrip(LStrip(t))

\* str.splitlines(): the lines of t without their line breaks; cur is the
\* line being read
RECURSIVE SplitLinesFrom(_, _)
SplitLinesFrom(t, cur) ==
    IF t = <<>> THEN (IF cur = <<>> THEN <<>> ELSE <<cur>>)
    ELSE IF Head(t) = "\r" /\ Len(t) >= 2 /\ t[2] = "\n"
    THEN <<cur>> \o SplitLinesFrom(Tail(Tail(t)), <<>>)
    ELSE IF Head(t) \in LineBreaks THEN <<cur>> \o SplitLinesFrom(Tail(t), <<>>)
    ELSE SplitLinesFrom(Tail(t), Append(cur, Head(t)))

SplitLines(t) == SplitLinesFrom(t, <<>>)

\* list membership: `x in lines`
InList(x, lines) == \E k \in DOMAIN lines : lines[k] = x

\* substring test on str: `p in t`
Contains(p, t) ==
    \E k \in 0..(Len(t) - Len(p)) : SubSeq(t, k + 1, k + Len(p)) = p

RECURSIVE JoinLines(_, _)
JoinLines(lines, indent) ==
    IF lines = <<>> THEN <<>>
    ELSE indent \o Head(lines) \o <<"\n">> \o JoinLines(Tail(lines), indent)

\* s is the beginning of t: str.startswith, and the prefix order of lists
IsPrefix(s, t) == Len(s) <= Len(t) /\ \A k \in DOMAIN s : s[k] = t[k]

\* the characters of the names, in the order of their code points (the
\* printable ASCII characters but the double quote, the backslash and the
\* backtick, then the two tokens)
CharOrder ==
    <<
      " ", "!", "#", "$", "%", "&", "'", "(", ")", "*", "+", ",",
      "-", ".", "/", "0", "1", "2", "3", "4", "5", "6", "7", "8",
      "9", ":", ";", "<", "=", ">", "?", "@", "A", "B", "C", "D",
      "E", "F", "G", "H", "I", "J", "K", "L", "M", "N", "O", "P",
      "Q", "R", "S", "T", "U", "V", "W", "X", "Y", "Z", "[", "]",
      "^", "_", "a", "b", "c", "d", "e", "f", "g", "h", "i", "j",
      "k", "l", "m", "n", "o", "p", "q", "r", "s", "t", "u", "v",
      "w", "x", "y", "z", "{", "|", "}", "~", NBSP, LSEP >>

CodePoint(c) == CHOOSE k \in DOMAIN CharOrder : CharOrder[k] = c

\* the order git lists names in: by their bytes, a prefix first
RECURSIVE NameBefore(_, _)
NameBefore(s, t) ==
    IF s = <<>> THEN t # <<>>
    ELSE IF t = <<>> THEN FALSE
    ELSE IF Head(s) # Head(t) THEN CodePoint(Head(s)) < CodePoint(Head(t))
    ELSE NameBefore(Tail(s), Tail(t))

-----------------------------------------------------------------------------
(* Commits: a small history.  1 is the root; 2 and 3 are children of 1;    *)
(* 4 is a child of 2.                                                      *)

Commits == 1..4
Parent == <<0, 1, 1, 2>>

RECURSIVE Ancestors(_)
Ancestors(c) == IF c = 0 THEN {} ELSE {c} \cup Ancestors(Parent[c])

IsAncestor(a, b) == a \in Ancestors(b)

\* git merge-base a b: the common ancestor every other common ancestor
\* precedes (0, no commit, when there is none)
GitMergeBase(a, b) ==
    LET common == Ancestors(a) \cap Ancestors(b)
    IN  IF common = {} THEN 0
        ELSE CHOOSE m \in common : \A x \in common : IsAncestor(x, m)

-----------------------------------------------------------------------------
(* A directory under root_dir and the git repository in it.                 *)
(*   exists    : root_dir/folder exists on disk                            *)
(*   remotes   : configured remote names, as `git remote` lists them       *)
(*   branch    : the checked-out branch                                    *)
(*   head      : commit of the local branch tip                            *)
(*   originTip : commit of that branch on the origin remote                *)
(*   tracking  : remote-tracking refs, [ref, tip], as `git branch -r`      *)
(*               lists them (sorted by name)                               *)
(*   server    : branches of the upstream repository, [branch, tip]        *)
(*   tags, originTags : tag names in the repository and on origin          *)

RefName(remote, branch) == remote \o <<"/">> \o branch

Git(ex, rem, br, hd, otip, srv) ==
    [exists |-> ex, remotes |-> rem, branch |-> br, head |-> hd,
     originTip |-> otip,
     tracking |-> <<[ref |-> RefName(s_origin, br), tip |-> otip]>>,
     server |-> srv, tags |-> {}, originTags |-> {}]

WithUpstream == <<s_origin, s_upstream>>

\* no directory of that name
NoDirectory == Git(FALSE, <<>>, s_main, 1, 1, <<>>)

\* a working copy one commit behind upstream/main
BehindUpstream == Git(TRUE, WithUpstream, s_main, 1, 1, <<[branch |-> s_main, tip |-> 2]>>)

GitStates ==
    { NoDirectory,                                                          \* folder not on disk
      Git(TRUE, <<s_origin>>, s_main, 1, 1, <<>>),                          \* no upstream remote
      Git(TRUE, <<s_origin, s_upstream2>>, s_main, 1, 1, <<>>),             \* a remote named upstream2
      Git(TRUE, <<s_origin, s_upstream \o <<NBSP>> >>, s_main, 1, 1, <<>>), \* a remote named upstream + no-break space
      Git(TRUE, <<s_a \o <<LSEP>> \o s_upstream, s_origin>>, s_main, 1, 1, <<>>), \* a remote named a + line separator + upstream
      Git(TRUE, WithUpstream, s_main, 1, 1, <<[branch |-> s_dev, tip |-> 2]>>),   \* upstream has no main
      Git(TRUE, WithUpstream, s_main, 1, 1, <<[branch |-> s_main2, tip |-> 2]>>), \* upstream has main2 only
      BehindUpstream,                                                             \* behind upstream
      Git(TRUE, WithUpstream, s_main, 2, 2, <<[branch |-> s_main, tip |-> 2]>>),  \* equal to upstream
      Git(TRUE, WithUpstream, s_main, 2, 2, <<[branch |-> s_main, tip |-> 1]>>),  \* ahead of upstream
      Git(TRUE, WithUpstream, s_main, 4, 4, <<[branch |-> s_main, tip |-> 3]>>),  \* diverged
      Git(TRUE, WithUpstream, s_main, 1, 3, <<[branch |-> s_main, tip |-> 2]>>) } \* behind upstream, origin elsewhere

SectionNames == <<<<"A">>, <<"B">>, <<"C">>>>
FolderNames == <<"f1", "f2", "f3">>
RepoNames == <<"n1", "n2", "n3">>
GitURL == "https://github.com/talos-gis/pyscripter"

\* the descriptor the entry block adds under the key "pyscripter" (lines 199-203)
PyscripterEntry ==
    [section |-> s_pyscripter, name |-> "pyscripter", git |-> GitURL,
     folder |-> "pyscripter"]

\* a field of a descriptor is set, empty ("key =") or absent from the section
FieldValue(kind, value) ==
    IF kind = "set" THEN value ELSE IF kind = "empty" THEN "" ELSE None

\* the r-th section of Setup.ini with its items; its name is its own,
\* "Options" or "pyscripter"; its folder is its own, the folder of the
\* descriptor of lines 199-203 ("shared"), empty or absent
Descriptor(r, sec, nm, gt, fl) ==
    [section |-> IF sec = "own" THEN SectionNames[r]
                 ELSE IF sec = "Options" THEN s_Options ELSE s_pyscripter,
     name |-> FieldValue(nm, RepoNames[r]),
     git |-> FieldValue(gt, GitURL),
     folder |-> IF fl = "shared" THEN PyscripterEntry.folder
                ELSE FieldValue(fl, FolderNames[r])]

\* One section with the directory of its own folder: every git state under
\* a complete descriptor; the incomplete descriptors over one git state; a
\* descriptor of the folder "pyscripter"; a section named Options and one
\* named pyscripter.
Worlds ==
    { [sec |-> "own", d |-> <<"set", "set", "set">>, g |-> g] : g \in GitStates }
    \cup { [sec |-> "own", d |-> d, g |-> BehindUpstream] :
             d \in { <<"empty", "set", "set">>, <<"absent", "set", "set">>,
                     <<"set", "empty", "set">>, <<"set", "absent", "set">> } }
    \cup { [sec |-> "own", d |-> d, g |-> NoDirectory] :
             d \in { <<"set", "set", "empty">>, <<"set", "set", "absent">>,
                     <<"set", "set", "shared">> } }
    \cup { [sec |-> "Options", d |-> <<"set", "set", "set">>, g |-> BehindUpstream],
           [sec |-> "pyscripter", d |-> <<"absent", "set", "set">>, g |-> BehindUpstream] }

\* the folder names there can be under root_dir; "" is root_dir itself
AllDirs == {FolderNames[r] : r \in 1..NumSections} \cup {PyscripterEntry.folder, ""}

\* root_dir / folder (line 76, line 120); with an empty folder the path is
\* root_dir itself, written ""
RepoPath(data) == data.folder

\* the directory a descriptor names; root_dir / None names none
Dir(d, data) == IF data.folder = None THEN NoDirectory ELSE d[RepoPath(data)]

\* (a variant: the folder is taken to be there)
PathExistsAlways(g) == TRUE

\* repo_path.exists() (line 78, line 122)
PathExists(g) == g.exists

-----------------------------------------------------------------------------
(* git, as the script's commands see it *)

\* stdout of `git remote`
GitRemoteOut(g) == JoinLines(g.remotes, <<>>)

\* stdout of `git rev-parse --abbrev-ref HEAD`
GitAbbrevRefOut(g) == g.branch \o <<"\n">>

\* stdout of `git branch -r`
GitBranchROut(g) ==
    JoinLines([k \in DOMAIN g.tracking |-> g.tracking[k].ref], <<" ", " ">>)

\* refs of distinct names, sorted by name
SortRefs(refs) ==
    LET all == {refs[k] : k \in DOMAIN refs}
    IN  [k \in DOMAIN refs |->
            CHOOSE e \in all :
                Cardinality({x \in all : NameBefore(x.ref, e.ref)}) = k - 1]

\* whether `git fetch upstream` finds a remote of that name
HasRemote(g, name) == \E k \in DOMAIN g.remotes : g.remotes[k] = name

\* `git fetch upstream`: every branch of the upstream repository becomes
\* (or updates) the remote-tracking ref upstream/<branch>; nothing is pruned
GitFetch(g) ==
    LET fetched == [k \in DOMAIN g.server |->
                      [ref |-> RefName(s_upstream, g.server[k].branch),
                       tip |-> g.server[k].tip]]
        Kept(e) == \A k \in DOMAIN fetched : fetched[k].ref # e.ref
    IN  [g EXCEPT !.tracking = SortRefs(SelectSeq(g.tracking, Kept) \o fetched)]

\* whether `ref` names a remote-tracking ref of the repository
RefExists(g, ref) == \E k \in DOMAIN g.tracking : g.tracking[k].ref = ref

\* the commit a remote-tracking ref names (0, no commit, when there is no
\* such ref)
RefTip(g, ref) ==
    IF RefExists(g, ref)
    THEN g.tracking[CHOOSE k \in DOMAIN g.tracking : g.tracking[k].ref = ref].tip
    ELSE 0

\* `git merge --ff-only <ref>` is refused unless HEAD is an ancestor of ref
CanFastForward(g, ref) == RefExists(g, ref) /\ IsAncestor(g.head, RefTip(g, ref))

GitMergeFF(g, ref) == [g EXCEPT !.head = RefTip(g, ref)]

\* `git push origin <branch>` is rejected unless origin's tip is an ancestor
PushAccepted(g) == IsAncestor(g.originTip, g.head)

GitPush(g) ==
    [g EXCEPT !.originTip = g.head,
              !.tracking = [k \in DOMAIN g.tracking |->
                              IF g.tracking[k].ref = RefName(s_origin, g.branch)
                              THEN [g.tracking[k] EXCEPT !.tip = g.head]
                              ELSE g.tracking[k]]]

\* `git tag "<tag>"` fails when the tag exists
TagName == "talos_2025.04.10"
GitTag(g) == [g EXCEPT !.tags = g.tags \cup {TagName}]
GitPushTag(g) == [g EXCEPT !.originTags = g.originTags \cup {TagName}]

-----------------------------------------------------------------------------
(* The command runner *)

\* The command lines, by the line of the script that builds them
cmd_remote == "git remote"
cmd_branch == "git rev-parse --abbrev-ref HEAD"
cmd_fetch == "git fetch upstream"
cmd_heads == "git branch -r"
cmd_merge_base == "git merge-base HEAD upstream/<branch>"
cmd_rev_head == "git rev-parse HEAD"
cmd_rev_upstream == "git rev-parse upstream/<branch>"
cmd_merge == "git merge --ff-only upstream/<branch>"
cmd_push == "git push origin <branch>"
cmd_tag == "git tag"
cmd_push_tag == "git push origin tag"

MutatingCmds == {cmd_merge, cmd_push, cmd_tag, cmd_push_tag}

\* Exit statuses a command can end with: any command can fail (status 1);
\* `possible` says whether git can carry it out at all.
ExitCodes(possible) == IF possible THEN {0, 1} ELSE {1}

\* One call of the runner: the command, whether it was only simulated, its
\* exit status and the value returned to the caller.
Call(cmd, dry, rc, out) ==
    [repo |-> i, cmd |-> cmd, dry |-> dry,
     rc |-> IF dry THEN 0 ELSE rc,
     out |-> IF dry \/ rc # 0 THEN <<>> ELSE out]

\* run (lines 34-46): the command is executed; a non-zero exit status raises
\* RuntimeError, otherwise the trimmed stdout is returned.
run(cmd, rc, out) == log' = Append(log, Call(cmd, FALSE, rc, out))

\* (a variant: the simulated command is not printed)
DryRunLinesNever(cmd, dry) == <<>>

\* the line run_cmd prints under dry_run (line 50)
DryRunLines(cmd, dry) ==
    IF dry THEN <<[k |-> "[DRY-RUN]", repo |-> i, text |-> cmd]>> ELSE <<>>

\* run_cmd (lines 48-52): under dry_run the command is only printed and ""
\* is returned; otherwise run.
run_cmd(cmd, dry, rc, out) ==
    /\ log' = Append(log, Call(cmd, dry, rc, out))
    /\ stdout' = stdout \o DryRunLines(cmd, dry)

\* what run_cmd hands back to the caller
Returned(dry, out) == IF dry THEN <<>> ELSE out

\* whether the call raised
\* (a variant: the exit status is not looked at)
RaisedNever(dry, rc) == FALSE

Raised(dry, rc) == ~dry /\ rc # 0

\* the dry_run argument the read commands are called with (lines 129-161)
ReadDryRun == FALSE

\* (a variant: the flag is not passed on)
MutatingDryRunIgnored == FALSE

\* the dry_run argument the mutating commands are called with (lines 94, 175, 178)
MutatingDryRun == dry_run

\* where each function starts
EntryPoint(m) == IF m = "sync" THEN "ff_loop" ELSE "tag_loop"

\* (a variant: the exception is swallowed and the loop goes on)
OnErrorContinue == [pc |-> EntryPoint(mode), i |-> i + 1]

\* An exception leaves the function: neither loop has a try block.
OnError == [pc |-> "raised", i |-> i]

Raise ==
    /\ pc' = OnError.pc
    /\ i' = OnError.i

print(kind, text) == stdout' = Append(stdout, [k |-> kind, repo |-> i, text |-> text])

-----------------------------------------------------------------------------
(* status = defaultdict(list): keys in insertion order *)

HasKey(st, key) == \E k \in DOMAIN st : st[k].key = key

Bucket(st, key) ==
    IF HasKey(st, key)
    THEN st[CHOOSE k \in DOMAIN st : st[k].key = key].paths
    ELSE <<>>

\* (a variant: the list is replaced instead of extended)
StatusAppendOverwrite(st, key, path) ==
    IF HasKey(st, key)
    THEN [k \in DOMAIN st |->
            IF st[k].key = key THEN [st[k] EXCEPT !.paths = <<path>>] ELSE st[k]]
    ELSE Append(st, [key |-> key, paths |-> <<path>>])

\* (a variant: the path is put in front of the bucket)
StatusAppendFront(st, key, path) ==
    IF HasKey(st, key)
    THEN [k \in DOMAIN st |->
            IF st[k].key = key
            THEN [st[k] EXCEPT !.paths = <<path>> \o @]
            ELSE st[k]]
    ELSE Append(st, [key |-> key, paths |-> <<path>>])

\* status[key].append(path)
StatusAppend(st, key, path) ==
    IF HasKey(st, key)
    THEN [k \in DOMAIN st |->
            IF st[k].key = key
            THEN [st[k] EXCEPT !.paths = Append(@, path)]
            ELSE st[k]]
    ELSE Append(st, [key |-> key, paths |-> <<path>>])

StatusKeys == {"no_upstream", "no_upstream_branch", "Fast-forwarded", "ahead", "diverged"}

-----------------------------------------------------------------------------
(* Initial states *)

NoRun == [ran |-> FALSE, dry_run |-> FALSE, pc |-> "", status |-> <<>>, log |-> <<>>]

Modes == {"sync", "tag"}

\* The script is started: Setup.ini is there or not, with at most
\* NumSections sections of distinct names; under root_dir are the folder of
\* each section, the folder pyscripter and nothing else.
InitRun(m) ==
    /\ mode = m
    /\ dry_run \in BOOLEAN
    /\ \E present \in BOOLEAN, n \in 0..NumSections, pg \in GitStates :
       \E w \in [1..n -> Worlds] :
          /\ ~present => n = 0
          /\ \A r1, r2 \in 1..n :
                (w[r1].sec = w[r2].sec /\ w[r1].sec # "own") => r1 = r2
          /\ ini = [exists |-> present,
                    sections |-> [r \in 1..n |->
                        Descriptor(r, w[r].sec, w[r].d[1], w[r].d[2], w[r].d[3])]]
          /\ disk = [f \in AllDirs |->
                        IF f = PyscripterEntry.folder THEN pg
                        ELSE IF f = "" THEN BehindUpstream
                        ELSE IF \E r \in 1..n : FolderNames[r] = f
                        THEN w[CHOOSE r \in 1..n : FolderNames[r] = f].g
                        ELSE NoDirectory]
    /\ repos = <<>>
    /\ disk0 = disk
    /\ pc = "main"
    /\ i = 1
    /\ remotes = <<>>
    /\ current_branch = <<>>
    /\ upstream_heads = <<>>
    /\ merge_base = 0
    /\ head_commit = 0
    /\ upstream_commit = 0
    /\ status = <<>>
    /\ log = <<>>
    /\ stdout = <<>>
    /\ prev = NoRun

Init == \E m \in Modes : InitRun(m)

locals == <<remotes, current_branch, upstream_heads, merge_base, head_commit,
            upstream_commit>>
config == <<ini, repos, disk0, mode, dry_run, prev>>

-----------------------------------------------------------------------------
(* load_ini_sections (lines 7-31) and the entry block (lines 195-217) *)

skip_sections == {s_Options}

\* lines 20-29: the sections kept, in the order of the file
load_ini_sections(sections, tag) ==
    LET Kept(sec) ==
            /\ sec.section \notin skip_sections
            /\ (tag = None \/ IsPrefix(tag, sec.section))
    IN  SelectSeq(sections, Kept)

\* line 28: one line for each section kept
SectionLines(loaded) ==
    [k \in DOMAIN loaded |-> [k |-> "section", repo |-> 0, text |-> loaded[k].section]]

\* repos["pyscripter"] = {...} (lines 199-203): the value of an existing key
\* is replaced where the key stands, a new key comes last
SetItem(items, entry) ==
    IF \E k \in DOMAIN items : items[k].section = entry.section
    THEN [k \in DOMAIN items |->
            IF items[k].section = entry.section THEN entry ELSE items[k]]
    ELSE Append(items, entry)

\* lines 195-217 up to the call of the function: Setup.ini is loaded
\* (FileNotFoundError when it is not there) and the descriptor set is built
Main ==
    /\ pc = "main"
    /\ IF ~ini.exists
       THEN /\ pc' = "raised"
            /\ UNCHANGED <<repos, stdout>>
       ELSE LET loaded == load_ini_sections(ini.sections, None)
            IN  /\ stdout' = stdout \o SectionLines(loaded)
                /\ repos' = SetItem(loaded, PyscripterEntry)
                /\ pc' = EntryPoint(mode)
    /\ UNCHANGED <<ini, disk0, mode, dry_run, prev, disk, i, locals, status, log>>

-----------------------------------------------------------------------------
(* fast_forward_from_upstream (lines 103-193) *)

\* the directory the loop is at
Here == disk[RepoPath(repos[i])]

\* the disk after the directory the loop is at became g
DiskWith(g) == [disk EXCEPT ![RepoPath(repos[i])] = g]

\* `continue`, or the end of the loop body
NextRepo ==
    /\ i' = i + 1
    /\ pc' = "ff_loop"

\* f"upstream/{current_branch}" (line 145)
upstream_branch == RefName(s_upstream, current_branch)

\* a value as an f-string writes it: str(None) is "None"
FormatValue(v) == IF v = None THEN "None" ELSE v

\* the texts of the f-strings of line 123 and line 126
skip_format == "[SKIP] {name}: folder not found {repo_path}"
header_format == "\n=== {name} @ {repo_path} ==="

\* a line of line 123 or line 126: the f-string with the values of name and
\* repo_path it is filled with
NameLine(format, data) ==
    [k |-> format, repo |-> i, name |-> FormatValue(data.name),
     text |-> RepoPath(data)]

\* lines 116-126: the loop head, the folder check
FFLoop ==
    /\ pc = "ff_loop"
    /\ IF i > Len(repos)
       THEN /\ pc' = "ff_report"
            /\ UNCHANGED <<i, stdout>>
       ELSE IF repos[i].folder = None
       THEN \* root_dir / None raises TypeError (line 120)
            /\ Raise
            /\ UNCHANGED stdout
       ELSE IF ~PathExists(Here)
       THEN /\ stdout' = Append(stdout, NameLine(skip_format, repos[i]))
            /\ NextRepo
       ELSE /\ stdout' = Append(stdout, NameLine(header_format, repos[i]))
            /\ pc' = "ff_remote"
            /\ i' = i
    /\ UNCHANGED <<config, disk, locals, status, log>>

\* "upstream" not in remotes (line 130): membership in the list of lines
HasUpstreamRemote(lines) == InList(s_upstream, lines)

\* lines 128-133: remote discovery
FFRemote ==
    /\ pc = "ff_remote"
    /\ \E rc \in ExitCodes(TRUE) :
        LET out == Strip(GitRemoteOut(Here)) IN
        /\ log' = Append(log, Call(cmd_remote, ReadDryRun, rc, out))
        /\ IF Raised(ReadDryRun, rc)
           THEN Raise /\ UNCHANGED <<remotes, status, stdout>>
           ELSE /\ remotes' = SplitLines(Returned(ReadDryRun, out))
                /\ IF ~HasUpstreamRemote(remotes')
                   THEN /\ stdout' = stdout
                                      \o DryRunLines(cmd_remote, ReadDryRun)
                                      \o <<[k |-> "info", repo |-> i, text |-> "No upstream remote"]>>
                        /\ status' = StatusAppend(status, "no_upstream", RepoPath(repos[i]))
                        /\ NextRepo
                   ELSE /\ stdout' = stdout \o DryRunLines(cmd_remote, ReadDryRun)
                        /\ pc' = "ff_branch"
                        /\ UNCHANGED <<i, status>>
    /\ UNCHANGED <<config, disk, current_branch, upstream_heads, merge_base,
                   head_commit, upstream_commit>>

\* lines 135-138: current branch detection
FFBranch ==
    /\ pc = "ff_branch"
    /\ \E rc \in ExitCodes(TRUE) :
        LET out == Strip(GitAbbrevRefOut(Here)) IN
        /\ run_cmd(cmd_branch, ReadDryRun, rc, out)
        /\ IF Raised(ReadDryRun, rc)
           THEN Raise /\ UNCHANGED current_branch
           ELSE /\ current_branch' = IF Returned(ReadDryRun, out) = <<>>
                                     THEN s_placeholder
                                     ELSE Returned(ReadDryRun, out)
                /\ pc' = "ff_fetch"
                /\ i' = i
    /\ UNCHANGED <<config, disk, remotes, upstream_heads, merge_base,
                   head_commit, upstream_commit, status>>

\* (a variant: fetch respects the flag)
FetchUnderDryRun == dry_run

\* the dry_run argument fetch is called with (line 142)
FetchDryRun == FALSE

\* line 142: fetch upstream
FFFetch ==
    /\ pc = "ff_fetch"
    /\ \E rc \in ExitCodes(HasRemote(Here, s_upstream)) :
        /\ run_cmd(cmd_fetch, FetchDryRun, rc, <<>>)
        /\ IF Raised(FetchDryRun, rc)
           THEN Raise /\ UNCHANGED disk
           ELSE /\ disk' = IF FetchDryRun THEN disk
                           ELSE DiskWith(GitFetch(Here))
                /\ pc' = "ff_heads"
                /\ i' = i
    /\ UNCHANGED <<config, locals, status>>

\* upstream_branch not in upstream_heads (line 149): a substring test on the
\* text of the listing
UpstreamBranchListed(name, heads) == Contains(name, heads)

\* lines 144-152: upstream branch existence
FFHeads ==
    /\ pc = "ff_heads"
    /\ \E rc \in ExitCodes(TRUE) :
        LET out == Strip(GitBranchROut(Here)) IN
        /\ log' = Append(log, Call(cmd_heads, ReadDryRun, rc, out))
        /\ IF Raised(ReadDryRun, rc)
           THEN Raise /\ UNCHANGED <<upstream_heads, status, stdout>>
           ELSE /\ upstream_heads' = Returned(ReadDryRun, out)
                /\ IF ~UpstreamBranchListed(upstream_branch, upstream_heads')
                   THEN /\ stdout' = stdout
                                      \o DryRunLines(cmd_heads, ReadDryRun)
                                      \o <<[k |-> "info", repo |-> i, text |-> "Upstream branch does not exist"]>>
                        /\ status' = StatusAppend(status, "no_upstream_branch", RepoPath(repos[i]))
                        /\ NextRepo
                   ELSE /\ stdout' = stdout \o DryRunLines(cmd_heads, ReadDryRun)
                        /\ pc' = "ff_merge_base"
                        /\ UNCHANGED <<i, status>>
    /\ UNCHANGED <<config, disk, remotes, current_branch, merge_base,
                   head_commit, upstream_commit>>

\* lines 154-159: merge base
FFMergeBase ==
    /\ pc = "ff_merge_base"
    /\ \E rc \in ExitCodes(RefExists(Here, upstream_branch)) :
        LET out == GitMergeBase(Here.head, RefTip(Here, upstream_branch)) IN
        /\ run_cmd(cmd_merge_base, ReadDryRun, rc, out)
        /\ IF Raised(ReadDryRun, rc)
           THEN Raise /\ UNCHANGED merge_base
           ELSE /\ merge_base' = Returned(ReadDryRun, out)
                /\ pc' = "ff_rev_head"
                /\ i' = i
    /\ UNCHANGED <<config, disk, remotes, current_branch, upstream_heads,
                   head_commit, upstream_commit, status>>

\* line 160
FFRevHead ==
    /\ pc = "ff_rev_head"
    /\ \E rc \in ExitCodes(TRUE) :
        LET out == Here.head IN
        /\ run_cmd(cmd_rev_head, ReadDryRun, rc, out)
        /\ IF Raised(ReadDryRun, rc)
           THEN Raise /\ UNCHANGED head_commit
           ELSE /\ head_commit' = Returned(ReadDryRun, out)
                /\ pc' = "ff_rev_upstream"
                /\ i' = i
    /\ UNCHANGED <<config, disk, remotes, current_branch, upstream_heads,
                   merge_base, upstream_commit, status>>

\* line 161
FFRevUpstream ==
    /\ pc = "ff_rev_upstream"
    /\ \E rc \in ExitCodes(RefExists(Here, upstream_branch)) :
        LET out == RefTip(Here, upstream_branch) IN
        /\ run_cmd(cmd_rev_upstream, ReadDryRun, rc, out)
        /\ IF Raised(ReadDryRun, rc)
           THEN Raise /\ UNCHANGED upstream_commit
           ELSE /\ upstream_commit' = Returned(ReadDryRun, out)
                /\ pc' = "ff_classify"
                /\ i' = i
    /\ UNCHANGED <<config, disk, remotes, current_branch, upstream_heads,
                   merge_base, head_commit, status>>

\* (variants of the three-way test: the two tests in the other order, the
\* second test on the wrong operand, the third branch forgotten)
ClassifyUpstreamFirst(mb, hc, uc) ==
    IF mb = uc THEN "ahead"
    ELSE IF mb = hc THEN "Fast-forwarded"
    ELSE "diverged"

ClassifyWrongOperand(mb, hc, uc) ==
    IF mb = hc THEN "Fast-forwarded"
    ELSE IF hc = uc THEN "ahead"
    ELSE "diverged"

ClassifyNoElse(mb, hc, uc) ==
    IF mb = hc THEN "Fast-forwarded" ELSE "ahead"

\* lines 171, 183, 186: the three-way test, in the order it is written
Classify(mb, hc, uc) ==
    IF mb = hc THEN "Fast-forwarded"
    ELSE IF mb = uc THEN "ahead"
    ELSE "diverged"

\* lines 171-172, 183-188
FFClassify ==
    /\ pc = "ff_classify"
    /\ LET verdict == Classify(merge_base, head_commit, upstream_commit)
       IN  IF verdict = "Fast-forwarded"
           THEN /\ print("info", "Fast-forward possible")
                /\ pc' = "ff_merge"
                /\ UNCHANGED <<i, status>>
           ELSE /\ status' = StatusAppend(status, verdict, RepoPath(repos[i]))
                /\ print("info", verdict)
                /\ NextRepo
    /\ UNCHANGED <<config, disk, locals, log>>

\* line 175: fast-forward merge
FFMerge ==
    /\ pc = "ff_merge"
    /\ \E rc \in ExitCodes(CanFastForward(Here, upstream_branch)) :
        /\ run_cmd(cmd_merge, MutatingDryRun, rc, <<>>)
        /\ IF Raised(MutatingDryRun, rc)
           THEN Raise /\ UNCHANGED disk
           ELSE /\ disk' = IF MutatingDryRun THEN disk
                           ELSE DiskWith(GitMergeFF(Here, upstream_branch))
                /\ pc' = "ff_push"
                /\ i' = i
    /\ UNCHANGED <<config, locals, status>>

\* lines 177-181: push to origin, record the verdict
FFPush ==
    /\ pc = "ff_push"
    /\ \E rc \in ExitCodes(PushAccepted(Here)) :
        /\ log' = Append(log, Call(cmd_push, MutatingDryRun, rc, <<>>))
        /\ IF Raised(MutatingDryRun, rc)
           THEN Raise /\ UNCHANGED <<disk, status, stdout>>
           ELSE /\ disk' = IF MutatingDryRun THEN disk
                           ELSE DiskWith(GitPush(Here))
                /\ stdout' = stdout
                              \o DryRunLines(cmd_push, MutatingDryRun)
                              \o <<[k |-> "info", repo |-> i, text |-> "Fast-forwarded & pushed"]>>
                /\ status' = StatusAppend(status, "Fast-forwarded", RepoPath(repos[i]))
                /\ NextRepo
    /\ UNCHANGED <<config, locals>>

\* lines 190-193: the report
RECURSIVE Render(_)
Render(st) ==
    IF st = <<>> THEN <<>>
    ELSE <<[k |-> "=== Status", repo |-> 0, text |-> Head(st).key]>>
         \o [k \in DOMAIN Head(st).paths |->
               [k |-> "path", repo |-> 0, text |-> Head(st).paths[k]]]
         \o Render(Tail(st))

FFReport ==
    /\ pc = "ff_report"
    /\ stdout' = stdout \o Render(status)
    /\ pc' = "done"
    /\ UNCHANGED <<config, disk, i, locals, status, log>>

SyncNext ==
    \/ FFLoop \/ FFRemote \/ FFBranch \/ FFFetch \/ FFHeads \/ FFMergeBase
    \/ FFRevHead \/ FFRevUpstream \/ FFClassify \/ FFMerge \/ FFPush \/ FFReport

-----------------------------------------------------------------------------
(* tag_release_repos (lines 55-94) *)

\* `not x` for a value of data.get
Falsy(x) == x = None \/ x = ""

\* (a variant: the folder is not looked for on disk)
TagConfigErrorFieldsOnly(data, g) ==
    Falsy(data.name) \/ Falsy(data.git) \/ Falsy(data.folder)

\* (a variant: git is not asked for)
TagConfigErrorNoGit(data, g) ==
    \/ Falsy(data.name) \/ Falsy(data.folder)
    \/ ~PathExists(g)

\* lines 72, 78: what makes the run fail before any command of the repository
TagConfigError(data, g) ==
    \/ Falsy(data.name) \/ Falsy(data.git) \/ Falsy(data.folder)
    \/ ~PathExists(g)

\* lines 68-80
TagLoop ==
    /\ pc = "tag_loop"
    /\ IF i > Len(repos)
       THEN pc' = "done" /\ i' = i
       ELSE IF TagConfigError(repos[i], Dir(disk, repos[i]))
       THEN Raise
       ELSE pc' = "tag_branch" /\ i' = i
    /\ UNCHANGED <<config, disk, locals, status, log, stdout>>

\* lines 83-85: the current branch, read with run (never simulated)
TagBranch ==
    /\ pc = "tag_branch"
    /\ \E rc \in ExitCodes(TRUE) :
        LET out == Strip(GitAbbrevRefOut(Here)) IN
        /\ run(cmd_branch, rc, out)
        /\ IF rc # 0
           THEN Raise /\ UNCHANGED <<current_branch, stdout>>
           ELSE /\ current_branch' = out
                /\ print("info", RepoPath(repos[i]))
                /\ pc' = "tag_create"
                /\ i' = i
    /\ UNCHANGED <<config, disk, remotes, upstream_heads, merge_base,
                   head_commit, upstream_commit, status>>

\* lines 88-94, first command: git tag "<tag_name>"
TagCreate ==
    /\ pc = "tag_create"
    /\ \E rc \in ExitCodes(TagName \notin Here.tags) :
        /\ run_cmd(cmd_tag, MutatingDryRun, rc, <<>>)
        /\ IF Raised(MutatingDryRun, rc)
           THEN Raise /\ UNCHANGED disk
           ELSE /\ disk' = IF MutatingDryRun THEN disk
                           ELSE DiskWith(GitTag(Here))
                /\ pc' = "tag_push"
                /\ i' = i
    /\ UNCHANGED <<config, locals, status>>

\* lines 88-94, second command: git push origin "<tag_name>"
TagPush ==
    /\ pc = "tag_push"
    /\ \E rc \in ExitCodes(TRUE) :
        /\ run_cmd(cmd_push_tag, MutatingDryRun, rc, <<>>)
        /\ IF Raised(MutatingDryRun, rc)
           THEN Raise /\ UNCHANGED disk
           ELSE /\ disk' = IF MutatingDryRun THEN disk
                           ELSE DiskWith(GitPushTag(Here))
                /\ pc' = "tag_loop"
                /\ i' = i + 1
    /\ UNCHANGED <<config, locals, status>>

TagNext == TagLoop \/ TagBranch \/ TagCreate \/ TagPush

-----------------------------------------------------------------------------
(* One run of either entry point *)

Next == Main \/ SyncNext \/ TagNext

Spec == Init /\ [][Next]_vars

-----------------------------------------------------------------------------
(* A paired run: the script is run to its end, then run again with the     *)
(* other value of dry_run on the repositories as they were when the first  *)
(* run started.                                                            *)

Replay ==
    /\ pc = "done"
    /\ ~prev.ran
    /\ prev' = [ran |-> TRUE, dry_run |-> dry_run, pc |-> pc, status |-> status,
                log |-> log]
    /\ dry_run' = ~dry_run
    /\ disk' = disk0
    /\ repos' = <<>>
    /\ pc' = "main"
    /\ i' = 1
    /\ remotes' = <<>>
    /\ current_branch' = <<>>
    /\ upstream_heads' = <<>>
    /\ merge_base' = 0
    /\ head_commit' = 0
    /\ upstream_commit' = 0
    /\ status' = <<>>
    /\ log' = <<>>
    /\ stdout' = <<>>
    /\ UNCHANGED <<ini, disk0, mode>>

InitPair == InitRun("sync")

NextPair == Main \/ SyncNext \/ Replay

SpecPair == InitPair /\ [][NextPair]_vars

(* The script is started a second time over the same descriptors with the   *)
(* same flag, on the working copies as the first run left them: the second *)
(* run begins from the disk state the first one ended with.                *)
Rerun ==
    /\ pc = "done"
    /\ ~prev.ran
    /\ prev' = [ran |-> TRUE, dry_run |-> dry_run, pc |-> pc, status |-> status,
                log |-> log]
    /\ disk0' = disk
    /\ repos' = <<>>
    /\ pc' = "main"
    /\ i' = 1
    /\ remotes' = <<>>
    /\ current_branch' = <<>>
    /\ upstream_heads' = <<>>
    /\ merge_base' = 0
    /\ head_commit' = 0
    /\ upstream_commit' = 0
    /\ status' = <<>>
    /\ log' = <<>>
    /\ stdout' = <<>>
    /\ UNCHANGED <<ini, disk, mode, dry_run>>

InitTwice == InitRun("sync")

NextTwice == Main \/ SyncNext \/ Rerun

SpecTwice == InitTwice /\ [][NextTwice]_vars

-----------------------------------------------------------------------------
(* Properties *)

Sync == mode = "sync"

PathOf(r) == RepoPath(repos[r])

\* the directory of descriptor r, now and when the run started
DirNow(r) == Dir(disk, repos[r])
DirAtStart(r) == Dir(disk0, repos[r])

\* the descriptors that name the directory r names
SamePath(r) == {q \in DOMAIN repos : PathOf(q) = PathOf(r)}

\* the calls made for repository r, in order
CallsOf(r) ==
    LET For(e) == e.repo = r IN SelectSeq(log, For)

CallsAmong(r, cmds) ==
    LET For(e) == e.repo = r /\ e.cmd \in cmds IN SelectSeq(log, For)

CmdNames(calls) == [k \in DOMAIN calls |-> calls[k].cmd]

\* repository r has a call of cmd that was executed and succeeded
Succeeded(r, cmd) ==
    \E k \in DOMAIN log :
        log[k].repo = r /\ log[k].cmd = cmd /\ ~log[k].dry /\ log[k].rc = 0

ReturnedTo(r, cmd) ==
    log[CHOOSE k \in DOMAIN log :
            log[k].repo = r /\ log[k].cmd = cmd /\ ~log[k].dry /\ log[k].rc = 0].out

\* how often a path is listed in the bucket `key`, and in all buckets
CountIn(st, key, path) ==
    Cardinality({k \in DOMAIN Bucket(st, key) : Bucket(st, key)[k] = path})

Occurrences(st, path) ==
    Cardinality({p \in UNION {{k} \X DOMAIN st[k].paths : k \in DOMAIN st} :
                    st[p[1]].paths[p[2]] = path})

\* the turns of the loop that ended with an entry for the path of r, other
\* than the turn of r itself: a turn over a directory that exists ends with
\* one entry, and the loop is past the descriptors before i
OtherEntries(r) ==
    IF DirAtStart(r).exists
    THEN Cardinality({q \in SamePath(r) : q < i /\ q # r})
    ELSE 0

\* the turn of r ended with an entry in the bucket `key`, and the path of r
\* is listed in no other bucket
OnlyIn(r, key) ==
    /\ r < i
    /\ CountIn(status, key, PathOf(r)) = OtherEntries(r) + 1
    /\ Occurrences(status, PathOf(r)) = OtherEntries(r) + 1

\* the turn of r has put no entry in any bucket
Unrecorded(r) == Occurrences(status, PathOf(r)) = OtherEntries(r)

\* repository r reached topology classification: the three values were read
Classified(r) ==
    /\ Succeeded(r, cmd_merge_base)
    /\ Succeeded(r, cmd_rev_head)
    /\ Succeeded(r, cmd_rev_upstream)

MBof(r) == ReturnedTo(r, cmd_merge_base)
HCof(r) == ReturnedTo(r, cmd_rev_head)
UCof(r) == ReturnedTo(r, cmd_rev_upstream)

\* the loop is past repository r, or the run has ended
Over(r) == i > r \/ pc \in {"done", "raised"}

NoMergeNoPush(r) == CallsAmong(r, {cmd_merge, cmd_push}) = <<>>

(* C1, as stated: every repository classified with mergeBase = headCommit   *)
(* has had the merge and then the push invoked, each once, and is listed   *)
(* in the Fast-forwarded bucket and in no other.                           *)
C1_Original ==
    \A r \in DOMAIN repos :
        (Sync /\ Classified(r) /\ MBof(r) = HCof(r) /\ Over(r))
        => /\ CmdNames(CallsAmong(r, {cmd_merge, cmd_push})) = <<cmd_merge, cmd_push>>
           /\ OnlyIn(r, "Fast-forwarded")

(* C1, amended: for every repository classified with mergeBase =           *)
(* headCommit the merge is invoked exactly once, first; unless it fails    *)
(* the push is invoked exactly once after it; unless one of the two fails  *)
(* the folder is listed once in the Fast-forwarded bucket and in no other  *)
(* bucket; when one of them fails the folder is in no bucket at all.       *)
C1_FastForward ==
    \A r \in DOMAIN repos :
        (Sync /\ Classified(r) /\ MBof(r) = HCof(r) /\ Over(r))
        => LET mp == CallsAmong(r, {cmd_merge, cmd_push})
           IN  /\ Len(mp) >= 1
               /\ mp[1].cmd = cmd_merge
               /\ IF mp[1].rc # 0
                  THEN Len(mp) = 1 /\ Unrecorded(r)
                  ELSE /\ Len(mp) = 2
                       /\ mp[2].cmd = cmd_push
                       /\ IF mp[2].rc # 0
                          THEN Unrecorded(r)
                          ELSE OnlyIn(r, "Fast-forwarded")

\* a repository already equal to upstream was merged, pushed and recorded
C1_Witness ==
    \E r \in DOMAIN repos :
        /\ Sync /\ ~dry_run
        /\ Classified(r) /\ MBof(r) = HCof(r) /\ HCof(r) = UCof(r)
        /\ Over(r)
        /\ CmdNames(CallsAmong(r, {cmd_merge, cmd_push})) = <<cmd_merge, cmd_push>>
        /\ OnlyIn(r, "Fast-forwarded")

FailingSteps ==
    {cmd_fetch, cmd_merge_base, cmd_rev_head, cmd_rev_upstream, cmd_merge, cmd_push}

(* C2, as stated: a command failing for repository r at fetch, merge-base,  *)
(* rev-parse, merge or push ends the turn of r only, so the run is never   *)
(* ended by it while repositories after r are still to be processed.       *)
C2_Original ==
    \A k \in DOMAIN log :
        (Sync /\ log[k].rc # 0 /\ log[k].cmd \in FailingSteps
              /\ log[k].repo < Len(repos))
        => pc # "raised"

(* C2, amended: a command failing for repository r ends the whole run: it  *)
(* is the last command issued (no retry, nothing for r or for any later    *)
(* repository), the function is left by the exception at r, and neither r  *)
(* nor any later repository is listed in a bucket.                         *)
C2_FailureEndsRun ==
    \A k \in DOMAIN log :
        (Sync /\ log[k].rc # 0)
        => /\ k = Len(log)
           /\ pc = "raised"
           /\ i = log[k].repo
           /\ \A r \in DOMAIN repos :
                 r >= i => Unrecorded(r)

\* fetch failed for the first of two repositories
C2_Witness ==
    /\ Sync
    /\ Len(repos) = 2
    /\ log # <<>>
    /\ log[Len(log)].cmd = cmd_fetch
    /\ log[Len(log)].rc # 0
    /\ log[Len(log)].repo = 1
    /\ DirAtStart(2).exists

DryRunLinesOf(out) ==
    LET Dry(l) == l.k = "[DRY-RUN]"
        lines == SelectSeq(out, Dry)
    IN  [k \in DOMAIN lines |-> <<lines[k].repo, lines[k].text>>]

MutatingCallsOf(calls) ==
    LET Mut(e) == e.cmd \in MutatingCmds
        cs == SelectSeq(calls, Mut)
    IN  [k \in DOMAIN cs |-> <<cs[k].repo, cs[k].cmd>>]

(* C3: under dry_run no merge, push, tag or tag push is executed by either *)
(* entry point; each is printed as one [DRY-RUN] line instead; and every   *)
(* repository's branch tip, origin branch, tags and origin tags are as     *)
(* they were when the run started.                                         *)
C3_DryRunMutatesNothing ==
    dry_run
    => /\ \A k \in DOMAIN log : log[k].cmd \in MutatingCmds => log[k].dry
       /\ DryRunLinesOf(stdout) = MutatingCallsOf(log)
       /\ \A r \in DOMAIN repos :
             /\ DirNow(r).head = DirAtStart(r).head
             /\ DirNow(r).originTip = DirAtStart(r).originTip
             /\ DirNow(r).tags = DirAtStart(r).tags
             /\ DirNow(r).originTags = DirAtStart(r).originTags

\* a dry run that reached the merge and the push of a repository behind upstream
C3_Witness ==
    /\ dry_run /\ Sync /\ pc = "done"
    /\ \E r \in DOMAIN repos :
          /\ DirAtStart(r).head # DirNow(r).tracking[Len(DirNow(r).tracking)].tip
          /\ CmdNames(CallsAmong(r, MutatingCmds)) = <<cmd_merge, cmd_push>>

SameBuckets(st1, st2) ==
    \A r \in DOMAIN repos : \A key \in StatusKeys :
        CountIn(st1, key, PathOf(r)) = CountIn(st2, key, PathOf(r))

\* no read command of the current run failed
ReadsSucceeded ==
    \A k \in DOMAIN log : log[k].rc # 0 => log[k].cmd \in {cmd_merge, cmd_push}

TopologyVerdict(g0, g) ==
    LET ref == RefName(s_upstream, g0.branch)
    IN  IF \A k \in DOMAIN g0.remotes : g0.remotes[k] # s_upstream
        THEN "no_upstream"
        ELSE IF ~RefExists(g, ref) THEN "no_upstream_branch"
        ELSE IF IsAncestor(g0.head, RefTip(g, ref)) THEN "Fast-forwarded"
        ELSE IF IsAncestor(RefTip(g, ref), g0.head) THEN "ahead"
        ELSE "diverged"

KeysOf(st) == {st[k].key : k \in DOMAIN st}

(* C5, as stated: when the run finishes every repository is listed in      *)
(* exactly one bucket (a repository whose folder is missing included).     *)
C5_Original ==
    (Sync /\ pc = "done")
    => \A r \in DOMAIN repos : Occurrences(status, PathOf(r)) = 1

(* C5, amended: when the run finishes, every repository whose folder       *)
(* exists is listed exactly once, in the one bucket its history calls for  *)
(* (Fast-forwarded, diverged, ahead, no_upstream, no_upstream_branch); a   *)
(* repository whose folder is missing is listed in no bucket.              *)
C5_OneVerdict ==
    (Sync /\ pc = "done")
    => /\ KeysOf(status) \subseteq StatusKeys
       /\ \A r \in DOMAIN repos :
             IF DirAtStart(r).exists
             THEN OnlyIn(r, TopologyVerdict(DirAtStart(r), DirNow(r)))
             ELSE Unrecorded(r)

\* a finished run over a missing folder and two repositories of one verdict
C5_Witness ==
    /\ Sync /\ pc = "done"
    /\ \E r \in DOMAIN repos : ~DirAtStart(r).exists /\ Unrecorded(r)
    /\ \E r \in DOMAIN repos : DirAtStart(r).exists /\ OnlyIn(r, "diverged")

(* C6, as stated: a repository whose remotes include none named exactly    *)
(* upstream is listed in no_upstream only, its one command is the remote   *)
(* listing, and the loop goes on to the next repository.                   *)
C6_Claim ==
    \A r \in DOMAIN repos :
        (Sync /\ Succeeded(r, cmd_remote) /\ ~HasRemote(DirAtStart(r), s_upstream))
        => /\ CmdNames(CallsOf(r)) = <<cmd_remote>>
           /\ OnlyIn(r, "no_upstream")
           /\ i > r

(* C7, as stated: a repository with no remote-tracking branch named        *)
(* upstream/<currentBranch> is listed in no_upstream_branch, and           *)
(* merge-base, rev-parse, merge and push are never invoked for it.         *)
C7_Claim ==
    \A r \in DOMAIN repos :
        (Sync /\ Succeeded(r, cmd_heads)
              /\ ~RefExists(DirNow(r), RefName(s_upstream, DirNow(r).branch)))
        => /\ CallsAmong(r, {cmd_merge_base, cmd_rev_head, cmd_rev_upstream,
                             cmd_merge, cmd_push}) = <<>>
           /\ OnlyIn(r, "no_upstream_branch")

(* C8: a repository classified with mergeBase = upstreamCommit and         *)
(* mergeBase # headCommit is listed in ahead only, and neither merge nor   *)
(* push is invoked for it.                                                 *)
C8_Ahead ==
    \A r \in DOMAIN repos :
        (Sync /\ Classified(r) /\ MBof(r) = UCof(r) /\ MBof(r) # HCof(r) /\ Over(r))
        => /\ OnlyIn(r, "ahead")
           /\ NoMergeNoPush(r)

\* a repository ahead of upstream was classified and recorded
C8_Witness ==
    \E r \in DOMAIN repos :
        /\ Sync /\ Classified(r) /\ MBof(r) = UCof(r) /\ MBof(r) # HCof(r)
        /\ Over(r) /\ OnlyIn(r, "ahead")

(* C9: a repository classified with mergeBase equal to neither headCommit  *)
(* nor upstreamCommit is listed in diverged only, with no merge and no     *)
(* push; and the three-way test gives every triple exactly one verdict,    *)
(* the first whose test matches.                                           *)
C9_Diverged ==
    /\ \A mb \in Commits, hc \in Commits, uc \in Commits :
          LET v == Classify(mb, hc, uc)
          IN  /\ v \in {"Fast-forwarded", "ahead", "diverged"}
              /\ (v = "Fast-forwarded") <=> (mb = hc)
              /\ (v = "ahead") <=> (mb # hc /\ mb = uc)
              /\ (v = "diverged") <=> (mb # hc /\ mb # uc)
    /\ \A r \in DOMAIN repos :
          (Sync /\ Classified(r) /\ MBof(r) # HCof(r) /\ MBof(r) # UCof(r) /\ Over(r))
          => /\ OnlyIn(r, "diverged")
             /\ NoMergeNoPush(r)

\* a repository whose history diverged from upstream was classified and recorded
C9_Witness ==
    \E r \in DOMAIN repos :
        /\ Sync /\ Classified(r) /\ MBof(r) # HCof(r) /\ MBof(r) # UCof(r)
        /\ Over(r) /\ OnlyIn(r, "diverged")

IncompleteForTagging(r) ==
    \/ repos[r].name \in {None, ""}
    \/ repos[r].git \in {None, ""}
    \/ repos[r].folder \in {None, ""}
    \/ ~DirAtStart(r).exists

(* C10: in tag_release_repos a descriptor without name, git or folder, or  *)
(* whose folder is not on disk, ends the run when the loop reaches it: no  *)
(* command is issued for it or for any repository after it, and the run    *)
(* never completes.                                                        *)
C10_TagConfigFatal ==
    \A r \in DOMAIN repos :
        (mode = "tag" /\ IncompleteForTagging(r))
        => /\ \A k \in DOMAIN log : log[k].repo < r
           /\ i <= r
           /\ (i = r => pc \in {"tag_loop", "raised"})
           /\ pc # "done"

\* the first repository was tagged for real, the second has no folder on
\* disk, and the run ended there
C10_Witness ==
    /\ mode = "tag" /\ ~dry_run
    /\ Len(repos) = 2
    /\ ~IncompleteForTagging(1)
    /\ ~DirAtStart(2).exists
    /\ CmdNames(CallsOf(1)) = <<cmd_branch, cmd_tag, cmd_push_tag>>
    /\ pc = "raised" /\ i = 2
    /\ CallsOf(2) = <<>>

SkipLinesOf(r) ==
    LET Skip(l) == l.k = skip_format /\ l.repo = r IN SelectSeq(stdout, Skip)

\* the configured folder of r is not on disk
FolderMissing(r) == repos[r].folder # None /\ ~DirAtStart(r).exists

(* C11, as stated: a repository whose folder is not on disk has no command  *)
(* run for it, raises no error, is recorded with a verdict of its own, and *)
(* the loop goes on to the next repository.                                *)
C11_Original ==
    \A r \in DOMAIN repos :
        (Sync /\ FolderMissing(r) /\ i > r)
        => /\ CallsOf(r) = <<>>
           /\ Occurrences(status, PathOf(r)) = 1

(* C11, amended: a repository whose folder is not on disk has no command   *)
(* run for it and raises no error; exactly one line                        *)
(* "[SKIP] {name}: folder not found {repo_path}", filled with its name and *)
(* its path, is printed for it, it is listed in no bucket, and the loop    *)
(* goes on to the next repository.                                         *)
C11_FolderMissingSkipped ==
    \A r \in DOMAIN repos :
        (Sync /\ FolderMissing(r))
        => /\ CallsOf(r) = <<>>
           /\ Unrecorded(r)
           /\ ~(pc = "raised" /\ i = r)
           /\ (i = r => pc = "ff_loop")
           /\ (i > r => SkipLinesOf(r) =
                          <<[k |-> "[SKIP] {name}: folder not found {repo_path}",
                             repo |-> r,
                             name |-> IF repos[r].name = None THEN "None"
                                      ELSE repos[r].name,
                             text |-> PathOf(r)]>>)

\* the first folder is missing and the second repository was processed
C11_Witness ==
    /\ Sync /\ Len(repos) = 2
    /\ FolderMissing(1)
    /\ Len(SkipLinesOf(1)) = 1
    /\ Succeeded(2, cmd_remote)
    /\ pc = "done"

(* C12: when fast_forward_from_upstream is run twice in succession in real  *)
(* mode, a repository the first run listed as Fast-forwarded is listed as  *)
(* Fast-forwarded, and in no other bucket, once the second run is past it: *)
(* the second run finds its HEAD equal to the merge base and to the        *)
(* upstream tip.                                                           *)
C12_Idempotent ==
    \A r \in DOMAIN repos :
        (/\ Sync /\ prev.ran /\ ~prev.dry_run /\ ~dry_run
         /\ CountIn(prev.status, "Fast-forwarded", PathOf(r)) >= 1
         /\ i > r)
        => /\ OnlyIn(r, "Fast-forwarded")
           /\ Classified(r)
           /\ MBof(r) = HCof(r)
           /\ HCof(r) = UCof(r)

\* the first run moved HEAD forward, the second run lists the repository again
C12_Witness ==
    /\ Sync /\ prev.ran /\ ~prev.dry_run /\ ~dry_run
    /\ pc = "done"
    /\ Len(repos) >= 1
    /\ CountIn(prev.status, "Fast-forwarded", PathOf(1)) = 1
    /\ DirNow(1).head # prev.log[6].out
    /\ DirNow(1).head = HCof(1)
    /\ OnlyIn(1, "Fast-forwarded")

Tagging == mode = "tag"

\* the [DRY-RUN] lines printed for repository r, as command texts in order
DryRunTextsOf(r) ==
    LET Dry(l) == l.k = "[DRY-RUN]" /\ l.repo = r
        lines == SelectSeq(stdout, Dry)
    IN  [k \in DOMAIN lines |-> lines[k].text]

(* C13, as stated: in a dry run of tag_release_repos no git command is      *)
(* executed for any repository, and for every repository the loop is past  *)
(* exactly two commands are logged, the tag creation and then the tag push. *)
C13_Claim ==
    (Tagging /\ dry_run)
    => /\ \A k \in DOMAIN log : log[k].dry
       /\ \A r \in DOMAIN repos :
            i > r => DryRunTextsOf(r) = <<cmd_tag, cmd_push_tag>>

\* the calls that were simulated, as <<repository, command text>> in order
SimulatedCalls ==
    LET Dry(e) == e.dry
        cs == SelectSeq(log, Dry)
    IN  [k \in DOMAIN cs |-> <<cs[k].repo, cs[k].cmd>>]

\* some line of the output carries the text of the command of call e
Printed(e) ==
    \E k \in DOMAIN stdout : stdout[k].repo = e.repo /\ stdout[k].text = e.cmd

(* C14, as stated: for every command passed to the runner, simulated or    *)
(* executed, the output contains a line with that command's text.          *)
C14_Original == \A k \in DOMAIN log : Printed(log[k])

(* C14, amended: a command is printed exactly when it is simulated: the     *)
(* [DRY-RUN] lines of the output are the simulated calls, in order, each   *)
(* with its command text, and no line of the output carries the text of a  *)
(* command that was executed.                                              *)
C14_OnlySimulatedLogged ==
    /\ DryRunLinesOf(stdout) = SimulatedCalls
    /\ \A k \in DOMAIN log : Printed(log[k]) <=> log[k].dry

\* a dry run that executed the reads and printed the merge and the push
C14_Witness ==
    /\ Sync /\ dry_run
    /\ Len(SimulatedCalls) >= 2
    /\ \E k \in DOMAIN log : ~log[k].dry /\ ~Printed(log[k])
    /\ \E k \in DOMAIN log : log[k].dry /\ log[k].cmd = cmd_push /\ Printed(log[k])

\* name, git or folder of descriptor r is absent or empty
Invalid(r) ==
    Falsy(repos[r].name) \/ Falsy(repos[r].git) \/ Falsy(repos[r].folder)

\* the run ends when the loop reaches r, before any command is issued for it
FailsBeforeCommands(r) ==
    /\ \A k \in DOMAIN log : log[k].repo < r
    /\ i <= r
    /\ (i = r => pc \in {EntryPoint(mode), "raised"})
    /\ pc # "done"

(* C15, as stated: in tag_release_repos and in fast_forward_from_upstream   *)
(* alike, a descriptor whose name, git or folder is absent or empty makes  *)
(* the run fail before any command is issued for that descriptor.          *)
C15_Original ==
    \A r \in DOMAIN repos : Invalid(r) => FailsBeforeCommands(r)

(* C15, amended: tag_release_repos fails the run before any command of a    *)
(* descriptor whose name, git or folder is absent or empty.                *)
(* fast_forward_from_upstream validates nothing: only an absent folder     *)
(* ends its run, before any command of that descriptor; with any other     *)
(* descriptor, whatever its name and git, the run never fails before the   *)
(* first command and, when the directory exists, that command (git remote) *)
(* is issued.                                                              *)
C15_OnlyTaggerValidates ==
    \A r \in DOMAIN repos :
        /\ (Tagging /\ Invalid(r)) => FailsBeforeCommands(r)
        /\ (Sync /\ repos[r].folder = None) => FailsBeforeCommands(r)
        /\ (Sync /\ repos[r].folder # None)
           => /\ ~(pc = "raised" /\ i = r /\ CallsOf(r) = <<>>)
              /\ (i > r /\ DirAtStart(r).exists)
                 => (CallsOf(r) # <<>> /\ CallsOf(r)[1].cmd = cmd_remote)

\* a descriptor without git was fast-forwarded
C15_Witness ==
    /\ Sync /\ ~dry_run /\ pc = "done"
    /\ Len(repos) = 2
    /\ repos[1].git = None
    /\ DirNow(1).head # DirAtStart(1).head
    /\ OnlyIn(1, "Fast-forwarded")

\* a command failed, or the run stopped on an exception
ErrorPropagated ==
    \/ pc = "raised"
    \/ \E k \in DOMAIN log : ~log[k].dry /\ log[k].rc # 0

StatusLines ==
    LET St(l) == l.k \in {"=== Status", "path"} IN SelectSeq(stdout, St)

(* C16: in fast_forward_from_upstream, once a command has failed or an      *)
(* exception was raised the run has stopped for good (no step follows) and *)
(* no line of the summary is ever printed, whatever the buckets hold.      *)
C16_ErrorNoSummary ==
    (Sync /\ ErrorPropagated)
    => /\ pc = "raised"
       /\ ~ENABLED Next
       /\ StatusLines = <<>>

\* the first repository is in a bucket, the second one failed
C16_Witness ==
    /\ Sync /\ pc = "raised" /\ i = 2
    /\ status # <<>>
    /\ Occurrences(status, PathOf(1)) = 1
    /\ StatusLines = <<>>

\* the commands of one repository, in the order of lines 129-178
Protocol ==
    <<cmd_remote, cmd_branch, cmd_fetch, cmd_heads, cmd_merge_base,
      cmd_rev_head, cmd_rev_upstream, cmd_merge, cmd_push>>

(* C17: in fast_forward_from_upstream the commands are issued repository by *)
(* repository in descriptor order; the commands of one repository are a    *)
(* prefix of: git remote, current branch, fetch, branch listing,           *)
(* merge-base, rev-parse HEAD, rev-parse upstream, merge, push; merge is   *)
(* issued only when the merge base read equals the HEAD read; and a        *)
(* command is issued only after every earlier one returned successfully.   *)
C17_Sequential ==
    Sync
    => /\ \A k, l \in DOMAIN log : k < l => log[k].repo <= log[l].repo
       /\ \A k \in DOMAIN log : k < Len(log) => log[k].rc = 0
       /\ \A k \in DOMAIN log : log[k].repo \in 1..i
       /\ \A r \in DOMAIN repos :
            /\ IsPrefix(CmdNames(CallsOf(r)), Protocol)
            /\ CallsAmong(r, {cmd_merge}) # <<>>
               => (Classified(r) /\ MBof(r) = HCof(r))

\* two repositories went through all nine commands, the first before the second
C17_Witness ==
    /\ Sync /\ ~dry_run /\ pc = "done"
    /\ Len(repos) = 2
    /\ Len(log) = 18
    /\ CmdNames(CallsOf(1)) = Protocol
    /\ CmdNames(CallsOf(2)) = Protocol
    /\ log[9].repo = 1 /\ log[10].repo = 2

\* s can be had from t by leaving elements out
RECURSIVE IsSubsequence(_, _)
IsSubsequence(s, t) ==
    IF s = <<>> THEN TRUE
    ELSE IF t = <<>> THEN FALSE
    ELSE IF Head(s) = Head(t) THEN IsSubsequence(Tail(s), Tail(t))
    ELSE IsSubsequence(s, Tail(t))

\* the paths of the descriptors the loop is past, in descriptor order
PathsPassed ==
    LET Named(data) == data.folder # None
    IN  [k \in DOMAIN SelectSeq(SubSeq(repos, 1, i - 1), Named) |->
            RepoPath(SelectSeq(SubSeq(repos, 1, i - 1), Named)[k])]

\* a bucket lists paths of the descriptor set, in descriptor order
InDescriptorOrder(paths) == IsSubsequence(paths, PathsPassed)

KeySeq(st) == [k \in DOMAIN st |-> st[k].key]

\* the headers "=== Status: <key> ===" printed so far, as keys in order
HeaderKeys ==
    LET Hd(l) == l.k = "=== Status"
        hs == SelectSeq(stdout, Hd)
    IN  [k \in DOMAIN hs |-> hs[k].text]

PathLines ==
    LET Pl(l) == l.k = "path"
        ps == SelectSeq(stdout, Pl)
    IN  [k \in DOMAIN ps |-> ps[k].text]

RECURSIVE AllPaths(_)
AllPaths(st) == IF st = <<>> THEN <<>> ELSE Head(st).paths \o AllPaths(Tail(st))

BucketsWellFormed ==
    Sync
    => /\ \A k \in DOMAIN status :
            /\ status[k].paths # <<>>
            /\ InDescriptorOrder(status[k].paths)
            /\ \A l \in DOMAIN status : status[k].key = status[l].key => k = l
       /\ pc # "done" => (HeaderKeys = <<>> /\ PathLines = <<>>)
       /\ pc = "done" => /\ i > Len(repos)
                         /\ HeaderKeys = KeySeq(status)
                         /\ PathLines = AllPaths(status)

BucketsOnlyGrow ==
    Sync
    => /\ IsPrefix(KeySeq(status), KeySeq(status'))
       /\ \A k \in DOMAIN status : IsPrefix(status[k].paths, status'[k].paths)

(* C18: during a run of fast_forward_from_upstream a step only ever appends *)
(* to the status buckets (no key and no entry is removed or moved); every  *)
(* bucket lists paths of the descriptor set in descriptor order and is     *)
(* never empty; and the summary is printed only when all repositories have *)
(* been processed: one header per bucket, each once, in the order the      *)
(* buckets were created, with the paths of the buckets.                    *)
C18_AppendOnly == []BucketsWellFormed /\ [][BucketsOnlyGrow]_vars

\* two repositories in one bucket, and the summary printed
C18_Witness ==
    /\ Sync /\ pc = "done"
    /\ Len(repos) = 2
    /\ Len(status) = 1
    /\ status[1].paths = <<PathOf(1), PathOf(2)>>
    /\ HeaderKeys = <<status[1].key>>
    /\ PathLines = status[1].paths

\* repository r has a call of cmd that was executed and failed
Failed(r, cmd) ==
    \E k \in DOMAIN log :
        log[k].repo = r /\ log[k].cmd = cmd /\ ~log[k].dry /\ log[k].rc # 0

Listed(r, key) == CountIn(status, key, PathOf(r)) > 0

(* C19: in a real run of fast_forward_from_upstream the push of a           *)
(* repository is invoked only after the merge of that repository was       *)
(* executed and succeeded; after a failed merge no push is invoked and the *)
(* repository is not added to a bucket; after a failed push the repository *)
(* is not added to a bucket either; a turn that ended with the folder      *)
(* listed as Fast-forwarded had its push succeed.                          *)
C19_PushAfterMerge ==
    \A r \in DOMAIN repos :
        (Sync /\ ~dry_run)
        => /\ CallsAmong(r, {cmd_push}) # <<>>
              => /\ Succeeded(r, cmd_merge)
                 /\ CmdNames(CallsAmong(r, {cmd_merge, cmd_push})) = <<cmd_merge, cmd_push>>
           /\ Failed(r, cmd_merge)
              => /\ CallsAmong(r, {cmd_push}) = <<>>
                 /\ Unrecorded(r)
           /\ Failed(r, cmd_push) => Unrecorded(r)
           /\ (r < i /\ Listed(r, "Fast-forwarded")) => Succeeded(r, cmd_push)

\* the first repository was merged and pushed; the merge of the second one
\* succeeded and its push failed
C19_Witness ==
    /\ Sync /\ ~dry_run
    /\ Len(repos) = 2
    /\ OnlyIn(1, "Fast-forwarded")
    /\ Succeeded(2, cmd_merge)
    /\ Failed(2, cmd_push)
    /\ Unrecorded(2)
    /\ DirNow(2).head # DirAtStart(2).head
    /\ DirNow(2).originTip = DirAtStart(2).originTip

Tagged(r) == TagName \in DirNow(r).tags

TagOnOrigin(r) == TagName \in DirNow(r).originTags

(* C20: in a real run of tag_release_repos the repositories tagged are a    *)
(* prefix of the descriptor set: every repository the loop is past had its *)
(* three commands (current branch, tag, tag push) succeed and carries the  *)
(* tag locally and on origin; no command was issued for a repository the   *)
(* loop has not reached, and its directory is untouched unless a           *)
(* descriptor the loop did reach names it too; the tag push of a           *)
(* repository is invoked only after its tag was created; and a tag once    *)
(* created or pushed stays, also when the run is aborted later.            *)
C20_TaggedPrefix ==
    \A r \in DOMAIN repos :
        (Tagging /\ ~dry_run)
        => /\ r < i => /\ CmdNames(CallsOf(r)) = <<cmd_branch, cmd_tag, cmd_push_tag>>
                       /\ \A k \in DOMAIN CallsOf(r) : CallsOf(r)[k].rc = 0
                       /\ Tagged(r) /\ TagOnOrigin(r)
           /\ r > i => /\ CallsOf(r) = <<>>
                       /\ (\A q \in SamePath(r) : q > i) => DirNow(r) = DirAtStart(r)
           /\ CallsAmong(r, {cmd_push_tag}) # <<>>
              => (Succeeded(r, cmd_tag) /\ Tagged(r))
           /\ Tagged(r) <=> \E q \in SamePath(r) : Succeeded(q, cmd_tag)
           /\ TagOnOrigin(r) <=> \E q \in SamePath(r) : Succeeded(q, cmd_push_tag)

\* the run was aborted by the failed tag push of the second repository: the
\* first one keeps its tag, locally and on origin
C20_Witness ==
    /\ Tagging /\ ~dry_run
    /\ Len(repos) = 2
    /\ pc = "raised" /\ i = 2
    /\ Failed(2, cmd_push_tag)
    /\ Tagged(1) /\ TagOnOrigin(1)
    /\ Tagged(2) /\ ~TagOnOrigin(2)

====
